---- MODULE Spec2Model ----
(***************************************************************************)
(* Model of src/app/page.tsx: the batch image compressor's job queue.      *)
(*                                                                         *)
(* React state is modelled by two copies of each piece of state that an    *)
(* asynchronous continuation can write:                                    *)
(*   - the value after every setState updater issued so far (all updaters  *)
(*     of the page are functional, `prev => ...`, so applying them in      *)
(*     issue order is what the next render computes), and                  *)
(*   - the value of the last committed render, which is what the closures  *)
(*     (`running` inside processQueue), the ref `jobsRef` and the buttons  *)
(*     on screen see.                                                      *)
(* An event handler of the page (click, change, drop) runs its setState    *)
(* calls and the render they cause in one step; the updates issued by the  *)
(* scheduler loop between its awaits are committed by a later Render.      *)
(*                                                                         *)
(* Scheduling.  React queues the render task when an update is issued, so  *)
(* a task that becomes ready later (a timer of the loop, the settlement of *)
(* a codec call or of a bitmap fetch) runs after that render: those steps  *)
(* wait for Flushed.  A continuation that is ready within the same task (a *)
(* promise that resolves without any work of the platform) can run before  *)
(* it, and a user event can arrive before it.  The code that runs between  *)
(* two awaits runs without interruption: after the catch of line 207 the   *)
(* next pass of the while loop is the only step that can be taken (Quiet). *)
(***************************************************************************)
EXTENDS Integers, Sequences, FiniteSets, TLC

\* ---------------------------------------------------------------- bounds
MaxJobs == 2      \* files accepted by intake over the whole run
MaxClicks == 2    \* user actions other than intake over the whole run
MaxLoops == 2     \* invocations of processQueue that can be past its guard
MaxTplLen == 2    \* pieces of a filename template, the two fixed ones apart

\* ---------------------------------------------------------------- values
Undefined == "undefined"

\* performance.now(): a start or end time that has been taken
Stamp == "stamp"

\* an idle slot has no Job in hand; no heatmap key is busy
NoJob == [id |-> 0, file |-> [alpha |-> FALSE]]
NoKey == <<>>

\* URL.createObjectURL: a URL no earlier call has answered. The one made at
\* intake (line 228) is told apart by the Job; the one made for a codec
\* output (line 156) by the Job, the format and the number of user actions
\* so far (a Job is dispatched again only after a recompressAll).
ObjectUrl(id, mime, n) == <<"blob", id, mime, n>>

\* ch.toDataURL("image/png"), line 337: the data URL of the difference of
\* the original and of the codec output at url
HeatUrl(url) == <<"data:image/png", url>>

\* a result that has no heatmap yet
NoUrl == <<>>

JobStatus == {"queued", "processing", "done", "error", "canceled"}

JPEG == "image/jpeg"
WEBP == "image/webp"

\* out.size of a codec output, in abstract units: a WebP output comes out
\* smaller than or as large as a JPEG output of the same file
Sizes == {1, 2}
SizesOf(mime) == IF mime = "image/jpeg" THEN {2} ELSE Sizes

\* the select of the advanced panel offers 1 and 2
ConcurrencyOptions == {1, 2}

DEFAULT_CONCURRENCY == 1

FallbackMsg == "compress failed"

\* what a rejected codec call can throw: an Error with a message, or
\* something that is not an Error (an event, a string)
Thrown == {[isError |-> TRUE, message |-> "codec error"],
           [isError |-> FALSE, message |-> ""]}

\* a file handed to intake: `ok` = supported type and size within the limit,
\* `alpha` = what detectAlphaFast answers for it
Files == {[ok |-> FALSE, alpha |-> FALSE]} \cup [ok : {TRUE}, alpha : BOOLEAN]

InitialSettings == [concurrency |-> DEFAULT_CONCURRENCY, outJPEG |-> TRUE, outWebP |-> TRUE]

\* the formats a Settings value enables
Enabled(s) == (IF s.outJPEG THEN {JPEG} ELSE {}) \cup (IF s.outWebP THEN {WEBP} ELSE {})

\* ---------------------------------------------------------------- filenames
\* A string is the sequence of its pieces: a token of the template language,
\* a replacement pattern of String.prototype.replaceAll, or a run of other
\* characters.
KnownTokens == {"{name}", "{fmt}", "{q}", "{w}", "{ext}"}

\* Settings.filenameTpl as first rendered (line 102) and the template
\* "{name}_{fmt}_{q}_{w}.{ext}"
DefaultTpl == <<"{name}", "__", "{fmt}", "_q", "{q}", "_", "{w}", "w.", "{ext}">>
ExampleTpl == <<"{name}", "_", "{fmt}", "_", "{q}", "_", "{w}", ".", "{ext}">>

TplPieces == KnownTokens \cup {"{xyz}", "_", "."}

Templates ==
  {DefaultTpl, ExampleTpl} \cup UNION {[1..n -> TplPieces] : n \in 0..MaxTplLen}

\* j.name.replace(/\.[^.]+$/, ""), line 271: the name of a dropped file
\* without its extension; a file name can hold braces and dollar signs
Names == {<<"a">>, <<"a", "{ext}">>, <<"a", "$$">>, <<"$&">>}

\* the p of formatName, line 272: q is a quality of PRESETS (lines 72-74) in
\* thousandths, w the long-edge limit
Params ==
  [name : Names, fmt : {"webp"}, q : {800}, w : {2000}, ext : {"webp"}]
  \cup [name : Names, fmt : {"jpg"}, q : {920}, w : {3000}, ext : {"jpg"}]

\* the replacement patterns honoured by replaceAll in its second argument:
\* $$ inserts a dollar sign, $& the matched text
Expand(r, matched) ==
  [i \in DOMAIN r |-> IF r[i] = "$$" THEN "$" ELSE IF r[i] = "$&" THEN matched ELSE r[i]]

\* s.replaceAll(pat, r), for a pattern that is one piece
RECURSIVE replaceAll(_, _, _)
replaceAll(s, pat, r) ==
  IF s = <<>> THEN <<>>
  ELSE (IF Head(s) = pat THEN Expand(r, pat) ELSE <<Head(s)>>)
       \o replaceAll(Tail(s), pat, r)

\* String(Math.round(p.q*100)), line 261
Percent(q) == ToString((q + 5) \div 10)

\* formatName, lines 257-263
formatName(tpl, p) ==
  replaceAll(
    replaceAll(
      replaceAll(
        replaceAll(
          replaceAll(tpl, "{name}", p.name),
          "{fmt}", <<p.fmt>>),
        "{q}", <<Percent(p.q)>>),
      "{w}", <<ToString(p.w)>>),
    "{ext}", <<p.ext>>)

\* no call of formatName is under way
NoNaming ==
  [tpl |-> <<>>, p |-> [name |-> <<>>, fmt |-> "", q |-> 0, w |-> 0, ext |-> ""],
   made |-> FALSE, out |-> <<>>]

\* ---------------------------------------------------------------- the archive
\* the values of downloadZip's parameter `only`, line 251
Filters == {"all", JPEG, WEBP}

\* no archive was built yet
NoZip == [made |-> FALSE, only |-> "all", entries |-> <<>>]

\* a mutant of line 268: every result passes the filter
MatchesAny(only, r) == TRUE

\* line 268: if (only !== "all" && r.mime !== only) continue
Matches(only, r) == only = "all" \/ r.mime = only

\* lines 267-274: the zip.file calls made for the results of one Job, in
\* order; an entry is the Job it comes from, its format and its blob, which
\* compressOnce creates together with the result's object URL (lines 155-156)
EntriesOfJob(j, only) ==
  LET kept == SelectSeq([k \in DOMAIN j.results |-> k],
                        LAMBDA k : Matches(only, j.results[k]))
  IN [n \in DOMAIN kept |->
        [id |-> j.id, mime |-> j.results[kept[n]].mime, blob |-> j.results[kept[n]].url]]

\* lines 265-275: the zip.file calls of one export over the Jobs J
RECURSIVE Entries(_, _)
Entries(J, only) ==
  IF J = <<>> THEN <<>>
  ELSE (IF Head(J).status /= "done" THEN <<>> ELSE EntriesOfJob(Head(J), only))
       \o Entries(Tail(J), only)

VARIABLES
  jobs,       \* useState jobs: after every updater issued so far
  jobsRef,    \* jobsRef.current = jobs of the last committed render
  jobsDirty,  \* setJobs was called since the last committed render
  running,    \* useState running: after every setRunning issued so far
  runningR,   \* `running` as captured by the processQueue of the last render
  settings,   \* useState settings (written by event handlers only)
  loops,      \* the invocations of processQueue, by slot
  heatBusy,   \* useState heatBusy: after every setHeatBusy issued so far
  heatBusyR,  \* heatBusy of the last committed render
  heats,      \* ensureHeatmap calls awaiting their bitmaps
  nextId,     \* ids handed out by uid(), as a counter
  clicks,     \* user actions taken so far
  revoked,    \* the URLs handed to URL.revokeObjectURL so far
  naming,     \* a call of formatName: its arguments and, once made, its answer
  zip         \* the last archive downloadZip built: its filter and its entries

vars == <<jobs, jobsRef, jobsDirty, running, runningR, settings, loops,
          heatBusy, heatBusyR, heats, nextId, clicks, revoked, naming, zip>>

\* ---------------------------------------------------------------- helpers
Range(s) == {s[i] : i \in DOMAIN s}

Ids(J) == {J[i].id : i \in DOMAIN J}

JobOf(J, id) == J[CHOOSE i \in DOMAIN J : J[i].id = id]

\* {...j, ...patch}
Merge(j, patch) == [f \in DOMAIN j |-> IF f \in DOMAIN patch THEN patch[f] ELSE j[f]]

\* a mutant of updateJob: the id test is lost, every Job takes the patch
updateJobNoIdTest(J, id, patch) == [i \in DOMAIN J |-> Merge(J[i], patch)]

\* a mutant of updateJob: a completion only lands on a Job still processing
updateJobOnlyProcessing(J, id, patch) ==
  [i \in DOMAIN J |->
     IF J[i].id = id /\ ("status" \notin DOMAIN patch \/ patch.status = "processing"
                          \/ J[i].status = "processing")
     THEN Merge(J[i], patch) ELSE J[i]]

\* a mutant of updateJob: a patch for an id that is absent lands on the
\* first Job
updateJobOrFirst(J, id, patch) ==
  [i \in DOMAIN J |->
     IF J[i].id = id \/ (id \notin Ids(J) /\ i = 1) THEN Merge(J[i], patch) ELSE J[i]]

\* setJobs(prev => prev.map(j => j.id===id ? {...j, ...patch} : j))
updateJob(J, id, patch) ==
  [i \in DOMAIN J |-> IF J[i].id = id THEN Merge(J[i], patch) ELSE J[i]]

\* jobsRef.current.filter(j => j.status === "processing").length
processingCount(J) == Cardinality({i \in DOMAIN J : J[i].status = "processing"})

HasQueued(J) == \E i \in DOMAIN J : J[i].status = "queued"

\* a mutant of line 182: the last queued Job is taken
LastQueued(J) ==
  J[CHOOSE i \in DOMAIN J :
      /\ J[i].status = "queued"
      /\ \A k \in DOMAIN J : J[k].status = "queued" => k <= i]

\* jobsRef.current.find(j => j.status === "queued")
FirstQueued(J) ==
  J[CHOOSE i \in DOMAIN J :
      /\ J[i].status = "queued"
      /\ \A k \in DOMAIN J : J[k].status = "queued" => i <= k]

\* results.sort((a,b) => a.size - b.size): a stable insertion sort
RECURSIVE InsertBySize(_, _)
InsertBySize(r, s) ==
  IF s = <<>> THEN <<r>>
  ELSE IF r.size < Head(s).size THEN <<r>> \o s
  ELSE <<Head(s)>> \o InsertBySize(r, Tail(s))

RECURSIVE SortBySize(_)
SortBySize(s) ==
  IF s = <<>> THEN <<>>
  ELSE InsertBySize(s[Len(s)], SortBySize(SubSeq(s, 1, Len(s) - 1)))

BoolStr(b) == IF b THEN "true" ELSE "false"

\* enqueueFiles, line 229: the Job pushed for an accepted file. qfmts is a
\* history field (not in the source): the formats enabled in Settings when
\* the Job was last put into queued.
NewJob(id, f, S) ==
  [id |-> id, file |-> [alpha |-> f.alpha], url |-> ObjectUrl(id, "original", 0),
   status |-> "queued", hasAlpha |-> Undefined, startedAt |-> Undefined,
   endedAt |-> Undefined, error |-> Undefined, results |-> <<>>,
   qfmts |-> Enabled(S)]

\* lines 192-200: the codec calls started for a Job
Tasks(hasAlpha, S) ==
  IF hasAlpha
  THEN IF S.outWebP THEN <<[mime |-> WEBP, keepAlpha |-> TRUE]>> ELSE <<>>
  ELSE (IF S.outJPEG THEN <<[mime |-> JPEG, keepAlpha |-> FALSE]>> ELSE <<>>)
       \o (IF S.outWebP THEN <<[mime |-> WEBP, keepAlpha |-> FALSE]>> ELSE <<>>)

\* compressOnce, lines 157-166: the CompressResult of one settled codec call
CompressResult(task, size, url) ==
  [mime |-> task.mime, keepAlpha |-> task.keepAlpha, size |-> size, url |-> url,
   heatmapUrl |-> NoUrl]

\* a mutant of line 208: the message is read off whatever was thrown
ErrMsgRaw(err) == err.message

\* line 208
ErrMsg(err) == IF err.isError THEN err.message ELSE FallbackMsg

\* a mutant of the guard of line 171: the re-entry test is lost
ReentryNever(run) == FALSE

\* line 171: if (running) return
Reentry(run) == run

\* a mutant of the finally of line 213: the flag is not released
ReleaseNever(run, exit) == run

\* line 213: finally { setRunning(false) }, when the loop has left
Release(run, exit) == IF exit THEN FALSE ELSE run

\* line 180: processingCount >= settings.concurrency
AtCapacity(ref, S) == processingCount(ref) >= S.concurrency

IdleLoop ==
  [pc |-> "idle", settings |-> InitialSettings, job |-> NoJob, tasks |-> <<>>,
   dfmts |-> {}]

\* line 184: the patch of a dispatch
DispatchPatch ==
  [status |-> "processing", startedAt |-> Stamp, error |-> Undefined, results |-> <<>>]

\* lines 179-184, one pass of the while loop up to its first await, for the
\* invocation lp reading the snapshot ref, with J the jobs state so far and
\* cur the Settings of the last render. Answers the invocation's next
\* position, the jobs state, whether the loop has left (finally, line 213)
\* and whether setJobs was called. dfmts is a history field: the formats
\* enabled in Settings at the moment of the dispatch.
Iterate(lp, ref, J, cur) ==
  IF AtCapacity(ref, lp.settings)
  THEN [loop |-> [lp EXCEPT !.pc = "wait", !.job = NoJob, !.tasks = <<>>, !.dfmts = {}],
        jobs |-> J, exit |-> FALSE, set |-> FALSE]
  ELSE IF ~HasQueued(ref)
  THEN [loop |-> IdleLoop, jobs |-> J, exit |-> TRUE, set |-> FALSE]
  ELSE LET job == FirstQueued(ref) IN
       [loop |-> [lp EXCEPT !.pc = "detect",
                            !.job = [id |-> job.id, file |-> job.file],
                            !.tasks = <<>>,
                            !.dfmts = Enabled(cur)],
        jobs |-> updateJob(J, job.id, DispatchPatch),
        exit |-> FALSE, set |-> TRUE]

Active(L) == {l \in DOMAIN L : L[l].pc /= "idle"}

\* no invocation stands between its catch (line 211) and its next pass
Quiet == \A l \in DOMAIN loops : loops[l].pc /= "caught"

\* an update was issued that no render has committed yet
RenderPending == jobsDirty \/ running /= runningR \/ heatBusy /= heatBusyR

Flushed == ~RenderPending

\* a render and its effects (lines 115 and 217), for the state J, S, HB that
\* the render computes: jobsRef takes the rendered jobs; the start effect
\* runs when jobs or processQueue changed and calls the processQueue of this
\* render, which runs up to its first await.
Commit(J, S, HB, jobsChanged) ==
  LET pqChanged == (S /= settings) \/ (running /= runningR)
      fire == (jobsChanged \/ pqChanged) /\ HasQueued(J)
      free == (DOMAIN loops) \ Active(loops)
      go == fire /\ ~Reentry(running) /\ free /= {}
      l == CHOOSE x \in free : \A y \in free : x <= y
      it == Iterate([IdleLoop EXCEPT !.settings = S], J, J, S)
  IN /\ jobsRef' = J
     /\ runningR' = running
     /\ settings' = S
     /\ heatBusy' = HB
     /\ heatBusyR' = HB
     /\ IF go
        THEN /\ running' = Release(TRUE, it.exit)
             /\ loops' = [loops EXCEPT ![l] = it.loop]
             /\ jobs' = it.jobs
             /\ jobsDirty' = it.set
        ELSE /\ running' = running
             /\ loops' = loops
             /\ jobs' = J
             /\ jobsDirty' = FALSE

PageInit ==
  /\ jobs = <<>>
  /\ jobsRef = <<>>
  /\ jobsDirty = FALSE
  /\ running = FALSE
  /\ runningR = FALSE
  /\ settings = InitialSettings
  /\ loops = [l \in 1..MaxLoops |-> IdleLoop]
  /\ heatBusy = NoKey
  /\ heatBusyR = NoKey
  /\ heats = {}
  /\ nextId = 1
  /\ clicks = 0
  /\ revoked = {}
  /\ zip = NoZip

Init == PageInit /\ naming = NoNaming

\* the render React schedules for updates issued outside an event handler
Render ==
  /\ Quiet
  /\ RenderPending
  /\ Commit(jobs, settings, heatBusy, jobsDirty)
  /\ UNCHANGED <<heats, nextId, clicks, revoked, naming, zip>>

\* ---------------------------------------------------------------- the user
\* a FileList holds at most as many files as intake accepts in all
MaxBatch == MaxJobs

Batches == UNION {[1..n -> Files] : n \in 0..MaxBatch}

CanClick == Quiet /\ clicks < MaxClicks

\* the Jobs pushed for the accepted files of a FileList, lines 224-230
RECURSIVE NewJobs(_, _, _)
NewJobs(fs, id, S) ==
  IF fs = <<>> THEN <<>>
  ELSE IF Head(fs).ok THEN <<NewJob(id, Head(fs), S)>> \o NewJobs(Tail(fs), id + 1, S)
  ELSE NewJobs(Tail(fs), id, S)

\* enqueueFiles, lines 220-232
EnqueueFiles(fs) ==
  LET newJobs == NewJobs(fs, nextId, settings) IN
  /\ Quiet
  /\ nextId + Len(newJobs) - 1 <= MaxJobs
  /\ IF Len(newJobs) > 0
     THEN Commit(jobs \o newJobs, settings, heatBusy, TRUE)
     ELSE Commit(jobs, settings, heatBusy, jobsDirty)
  /\ nextId' = nextId + Len(newJobs)
  /\ UNCHANGED <<heats, clicks, revoked, naming, zip>>

\* a mutant of cancelJob: the test on done is lost
CancelPatchAlways(j, id) == IF j.id = id THEN [j EXCEPT !.status = "canceled"] ELSE j

\* cancelJob, line 239: the updater's map function
CancelPatch(j, id) ==
  IF j.id = id /\ j.status /= "done" THEN [j EXCEPT !.status = "canceled"] ELSE j

\* cancelJob, line 239; its button is on screen for a Job rendered neither
\* done nor error (line 501)
CancelJob(id) ==
  /\ CanClick
  /\ \E i \in DOMAIN jobsRef :
        jobsRef[i].id = id /\ jobsRef[i].status \notin {"done", "error"}
  /\ Commit([i \in DOMAIN jobs |-> CancelPatch(jobs[i], id)], settings, heatBusy, TRUE)
  /\ clicks' = clicks + 1
  /\ UNCHANGED <<heats, nextId, revoked, naming, zip>>

\* prev.filter(j => j.id !== id)
RECURSIVE Without(_, _)
Without(J, id) ==
  IF J = <<>> THEN <<>>
  ELSE IF Head(J).id = id THEN Without(Tail(J), id)
  ELSE <<Head(J)>> \o Without(Tail(J), id)

\* removeJob, line 240; its button is on screen for a Job rendered done,
\* error or canceled (line 504)
RemoveJob(id) ==
  /\ CanClick
  /\ \E i \in DOMAIN jobsRef :
        jobsRef[i].id = id /\ jobsRef[i].status \in {"done", "error", "canceled"}
  /\ Commit(Without(jobs, id), settings, heatBusy, TRUE)
  /\ clicks' = clicks + 1
  /\ UNCHANGED <<heats, nextId, revoked, naming, zip>>

\* the object URLs a Job holds: of its original and of its results
UrlsOf(j) == {j.url} \cup {j.results[k].url : k \in DOMAIN j.results}

\* line 242: prev.forEach(j => { revokeSafely(j.url);
\*                               j.results.forEach(r => revokeSafely(r.url)) })
RevokedByClear(J) == UNION {UrlsOf(J[i]) : i \in DOMAIN J}

\* clearAll, lines 241-243
ClearAll ==
  /\ CanClick
  /\ Commit(<<>>, settings, heatBusy, TRUE)
  /\ revoked' = revoked \cup RevokedByClear(jobs)
  /\ clicks' = clicks + 1
  /\ UNCHANGED <<heats, nextId, naming, zip>>

\* a mutant of recompressAll: the test on processing is lost
RecompressPatchEvery(j, S) ==
  [j EXCEPT !.status = "queued", !.results = <<>>, !.startedAt = Undefined,
            !.endedAt = Undefined, !.qfmts = Enabled(S)]

\* recompressAll, line 247: the updater's map function (qfmts: history)
RecompressPatch(j, S) ==
  IF j.status /= "processing"
  THEN [j EXCEPT !.status = "queued", !.results = <<>>, !.startedAt = Undefined,
                 !.endedAt = Undefined, !.qfmts = Enabled(S)]
  ELSE j

\* recompressAll, lines 246-248
RecompressAll ==
  /\ CanClick
  /\ Commit([i \in DOMAIN jobs |-> RecompressPatch(jobs[i], settings)],
            settings, heatBusy, TRUE)
  /\ clicks' = clicks + 1
  /\ UNCHANGED <<heats, nextId, revoked, naming, zip>>

\* downloadZip, lines 251-278, of the last render: it reads the jobs that
\* render captured. The names of the entries are not part of this action
\* (formatName is modelled with the filenames): JSZip keeps one entry per
\* name, so a name used twice drops an entry and never adds one.
DownloadZip(only) ==
  /\ CanClick
  /\ zip' = [made |-> TRUE, only |-> only, entries |-> Entries(jobsRef, only)]
  /\ clicks' = clicks + 1
  /\ UNCHANGED <<jobs, jobsRef, jobsDirty, running, runningR, settings, loops,
                 heatBusy, heatBusyR, heats, nextId, revoked, naming>>

\* the checkboxes and the select of the advanced panel, lines 434-448
SetOutJPEG ==
  /\ CanClick
  /\ Commit(jobs, [settings EXCEPT !.outJPEG = ~settings.outJPEG], heatBusy, jobsDirty)
  /\ clicks' = clicks + 1
  /\ UNCHANGED <<heats, nextId, revoked, naming, zip>>

SetOutWebP ==
  /\ CanClick
  /\ Commit(jobs, [settings EXCEPT !.outWebP = ~settings.outWebP], heatBusy, jobsDirty)
  /\ clicks' = clicks + 1
  /\ UNCHANGED <<heats, nextId, revoked, naming, zip>>

SetConcurrency(n) ==
  /\ CanClick
  /\ n /= settings.concurrency
  /\ Commit(jobs, [settings EXCEPT !.concurrency = n], heatBusy, jobsDirty)
  /\ clicks' = clicks + 1
  /\ UNCHANGED <<heats, nextId, revoked, naming, zip>>

\* ---------------------------------------------------------------- the loop
\* applies what Iterate answered for the invocation in slot l
Resume(l, it) ==
  /\ loops' = [loops EXCEPT ![l] = it.loop]
  /\ jobs' = it.jobs
  /\ running' = Release(running, it.exit)

\* the timers of lines 180 and 206 fire: the next pass of the while loop
TimerFires(l) ==
  /\ Quiet
  /\ Flushed
  /\ loops[l].pc \in {"wait", "yield"}
  /\ LET it == Iterate(loops[l], jobsRef, jobs, settings) IN
       /\ Resume(l, it)
       /\ jobsDirty' = (jobsDirty \/ it.set)
  /\ UNCHANGED <<jobsRef, runningR, settings, heatBusy, heatBusyR, heats, nextId, clicks, revoked, naming, zip>>

\* lines 187-200: detectAlphaFast has answered; the codec calls start
DetectDone(l) ==
  /\ Quiet
  /\ loops[l].pc = "detect"
  /\ LET lp == loops[l]
         hasAlpha == lp.job.file.alpha
     IN /\ jobs' = updateJob(jobs, lp.job.id, [hasAlpha |-> BoolStr(hasAlpha)])
        /\ loops' = [loops EXCEPT ![l].pc = "compress",
                                  ![l].tasks = Tasks(hasAlpha, lp.settings)]
  /\ jobsDirty' = TRUE
  /\ UNCHANGED <<jobsRef, running, runningR, settings, heatBusy, heatBusyR, heats,
                 nextId, clicks, revoked, naming, zip>>

\* a mutant of line 203: the results are stored in the order of the calls
DonePatchUnsorted(results) ==
  [results |-> results, status |-> "done", endedAt |-> Stamp]

\* line 203: the patch of a completion
DonePatch(results) ==
  [results |-> SortBySize(results), status |-> "done", endedAt |-> Stamp]

\* lines 202-206: every codec call has resolved, with the sizes sz
CompressDone(l, sz) ==
  /\ Quiet
  /\ loops[l].pc = "compress"
  /\ loops[l].tasks = <<>> \/ Flushed
  /\ DOMAIN sz = DOMAIN loops[l].tasks
  /\ \A i \in DOMAIN sz : sz[i] \in SizesOf(loops[l].tasks[i].mime)
  /\ LET lp == loops[l]
         results == [i \in DOMAIN lp.tasks |->
                       CompressResult(lp.tasks[i], sz[i],
                                      ObjectUrl(lp.job.id, lp.tasks[i].mime, clicks))]
     IN /\ jobs' = updateJob(jobs, lp.job.id, DonePatch(results))
        /\ loops' = [loops EXCEPT ![l].pc = "yield", ![l].tasks = <<>>]
  /\ jobsDirty' = TRUE
  /\ UNCHANGED <<jobsRef, running, runningR, settings, heatBusy, heatBusyR, heats,
                 nextId, clicks, revoked, naming, zip>>

\* line 210: the patch of a failure
ErrorPatch(err) == [status |-> "error", error |-> ErrMsg(err), endedAt |-> Stamp]

\* lines 207-211: a codec call has rejected with err
CompressFail(l, err) ==
  /\ Quiet
  /\ Flushed
  /\ loops[l].pc = "compress"
  /\ loops[l].tasks /= <<>>
  /\ jobs' = updateJob(jobs, loops[l].job.id, ErrorPatch(err))
  /\ loops' = [loops EXCEPT ![l].pc = "caught", ![l].tasks = <<>>]
  /\ jobsDirty' = TRUE
  /\ UNCHANGED <<jobsRef, running, runningR, settings, heatBusy, heatBusyR, heats,
                 nextId, clicks, revoked, naming, zip>>

\* line 212 back to line 178: the pass of the while loop that follows a catch
AfterCatch(l) ==
  /\ loops[l].pc = "caught"
  /\ LET it == Iterate(loops[l], jobsRef, jobs, settings) IN
       /\ Resume(l, it)
       /\ jobsDirty' = (jobsDirty \/ it.set)
  /\ UNCHANGED <<jobsRef, runningR, settings, heatBusy, heatBusyR, heats, nextId, clicks, revoked, naming, zip>>

\* ---------------------------------------------------------------- heatmaps
\* line 303: if (r.heatmapUrl)
Cached(r) == r.heatmapUrl /= NoUrl

\* ensureHeatmap, lines 301-305, called from the button of a result of a Job
\* rendered done (lines 510, 526-528) with the rendered Job: up to the first
\* await. A call that finds the memo sets no state, so nothing is rendered.
\* The record put into heats is what the suspended call holds: the Job's id,
\* the index, the result object (known by its url) and, to tell calls apart,
\* the number of user actions before it.
Request(id, idx) ==
  /\ Quiet
  /\ heatBusyR /= <<id, idx>>
  /\ \E i \in DOMAIN jobsRef :
       /\ jobsRef[i].id = id
       /\ jobsRef[i].status = "done"
       /\ idx \in DOMAIN jobsRef[i].results
       /\ LET r == jobsRef[i].results[idx] IN
            IF Cached(r)
            THEN UNCHANGED <<jobs, jobsRef, jobsDirty, running, runningR, settings,
                             loops, heatBusy, heatBusyR, heats>>
            ELSE /\ Commit(jobs, settings, <<id, idx>>, jobsDirty)
                 /\ heats' = heats \cup {[id |-> id, idx |-> idx, url |-> r.url,
                                          n |-> clicks]}
  /\ clicks' = clicks + 1
  /\ UNCHANGED <<nextId, revoked, naming, zip>>

EnsureHeatmap(id, idx) == clicks < MaxClicks /\ Request(id, idx)

\* line 339: the updater's map function
HeatPatch(j, id, idx, url) ==
  IF j.id = id
  THEN [j EXCEPT !.results =
          [k \in DOMAIN j.results |->
             IF k = idx THEN [j.results[k] EXCEPT !.heatmapUrl = url]
             ELSE j.results[k]]]
  ELSE j

\* line 338: r.heatmapUrl = url writes the result object the call was given,
\* wherever a list of Jobs still holds that object
MarkObject(J, h) ==
  [i \in DOMAIN J |->
     [J[i] EXCEPT !.results =
        [k \in DOMAIN J[i].results |->
           IF J[i].results[k].url = h.url
           THEN [J[i].results[k] EXCEPT !.heatmapUrl = HeatUrl(h.url)]
           ELSE J[i].results[k]]]]

\* lines 308-343: the bitmaps arrived and the heatmap was drawn
HeatDone(h) ==
  /\ Quiet
  /\ Flushed
  /\ h \in heats
  /\ jobsRef' = MarkObject(jobsRef, h)
  /\ jobs' = [i \in DOMAIN jobs |->
                HeatPatch(MarkObject(jobs, h)[i], h.id, h.idx, HeatUrl(h.url))]
  /\ jobsDirty' = TRUE
  /\ heatBusy' = NoKey
  /\ heats' = heats \ {h}
  /\ UNCHANGED <<running, runningR, settings, loops, heatBusyR, nextId, clicks, revoked, naming, zip>>

\* lines 308, 341-343: a bitmap could not be fetched or decoded
HeatFail(h) ==
  /\ Quiet
  /\ Flushed
  /\ h \in heats
  /\ heatBusy' = NoKey
  /\ heats' = heats \ {h}
  /\ UNCHANGED <<jobs, jobsRef, jobsDirty, running, runningR, settings, loops,
                 heatBusyR, nextId, clicks, revoked, naming, zip>>

\* ---------------------------------------------------------------- the system
JobIds == 1..MaxJobs
Slots == 1..MaxLoops
ResultIdx == 1..2

Next ==
  \/ \E fs \in Batches : EnqueueFiles(fs)
  \/ \E id \in JobIds : CancelJob(id)
  \/ \E id \in JobIds : RemoveJob(id)
  \/ ClearAll
  \/ RecompressAll
  \/ SetOutJPEG
  \/ SetOutWebP
  \/ \E n \in ConcurrencyOptions : SetConcurrency(n)
  \/ \E id \in JobIds, idx \in ResultIdx : EnsureHeatmap(id, idx)
  \/ Render
  \/ \E l \in Slots : TimerFires(l)
  \/ \E l \in Slots : DetectDone(l)
  \/ \E l \in Slots : \E sz \in UNION {[1..n -> Sizes] : n \in 0..2} : CompressDone(l, sz)
  \/ \E l \in Slots : \E err \in Thrown : CompressFail(l, err)
  \/ \E l \in Slots : AfterCatch(l)
  \/ \E h \in heats : HeatDone(h)
  \/ \E h \in heats : HeatFail(h)

Spec == Init /\ [][Next]_vars

\* ---------------------------------------------------------------- fairness
SizeChoices == UNION {[1..n -> Sizes] : n \in 0..2}

\* the codec calls of the invocation in slot l settle: all resolve, or one
\* rejects
Settle(l) ==
  \/ \E sz \in SizeChoices : CompressDone(l, sz)
  \/ \E err \in Thrown : CompressFail(l, err)

\* the browser runs every task that is ready: React's render, the timers of
\* the loop, the continuation of an await whose promise has settled
TasksRun ==
  /\ WF_vars(Render)
  /\ \A l \in Slots :
       /\ WF_vars(TimerFires(l))
       /\ WF_vars(DetectDone(l))
       /\ WF_vars(AfterCatch(l))

\* every decode and codec call settles
LiveSpec == Spec /\ TasksRun /\ \A l \in Slots : WF_vars(Settle(l))

\* the codec is not known to settle on the file of these Jobs
StalledIds == {1}

\* every codec call settles, except those on the files of StalledIds, which
\* may never do
StallSpec ==
  Spec /\ TasksRun
       /\ \A l \in Slots : WF_vars(loops[l].job.id \notin StalledIds /\ Settle(l))

\* ---------------------------------------------------------------- heatmap runs
\* Runs that start from the page as it stands after one file was dropped
\* and compressed under the initial settings, with room for more heatmap
\* requests than MaxClicks leaves once that point is reached. The user
\* asks for heatmaps, recompresses and removes; nothing else is dropped and
\* the settings stay as they are.
MaxHeatClicks == 4

\* the Job of file f after intake, dispatch, detection and completion with
\* the codec output sizes sz, before any user action
DoneJob(id, f, sz) ==
  LET tasks == Tasks(f.alpha, InitialSettings)
      results == [i \in DOMAIN tasks |->
                    CompressResult(tasks[i], sz[i], ObjectUrl(id, tasks[i].mime, 0))]
  IN Merge(Merge(Merge(NewJob(id, f, InitialSettings), DispatchPatch),
                 [hasAlpha |-> BoolStr(f.alpha)]),
           DonePatch(results))

HeatInit ==
  \E f \in {x \in Files : x.ok} :
    \E sz \in SizeChoices :
      /\ DOMAIN sz = DOMAIN Tasks(f.alpha, InitialSettings)
      /\ \A i \in DOMAIN sz : sz[i] \in SizesOf(Tasks(f.alpha, InitialSettings)[i].mime)
      /\ jobs = <<DoneJob(1, f, sz)>>
      /\ jobsRef = <<DoneJob(1, f, sz)>>
      /\ jobsDirty = FALSE
      /\ running = FALSE
      /\ runningR = FALSE
      /\ settings = InitialSettings
      /\ loops = [l \in 1..MaxLoops |-> IdleLoop]
      /\ heatBusy = NoKey
      /\ heatBusyR = NoKey
      /\ heats = {}
      /\ nextId = 2
      /\ clicks = 0
      /\ revoked = {}
      /\ naming = NoNaming
      /\ zip = NoZip

\* the heatmap button of a result, lines 526-528
HeatClick(id, idx) == clicks < MaxHeatClicks /\ Request(id, idx)

HeatNext ==
  \/ \E id \in JobIds, idx \in ResultIdx : HeatClick(id, idx)
  \/ \E h \in heats : HeatDone(h)
  \/ \E h \in heats : HeatFail(h)
  \/ Render
  \/ \E id \in JobIds : RemoveJob(id)
  \/ RecompressAll
  \/ \E l \in Slots : TimerFires(l)
  \/ \E l \in Slots : DetectDone(l)
  \/ \E l \in Slots : \E sz \in SizeChoices : CompressDone(l, sz)
  \/ \E l \in Slots : \E err \in Thrown : CompressFail(l, err)
  \/ \E l \in Slots : AfterCatch(l)

HeatSpec == HeatInit /\ [][HeatNext]_vars

\* ---------------------------------------------------------------- filename runs
\* formatName is called with a template and a p drawn from the sets above
FormatInit ==
  /\ PageInit
  /\ naming \in {[tpl |-> tpl, p |-> p, made |-> FALSE, out |-> <<>>] :
                   tpl \in Templates, p \in Params}

\* line 272: const out = formatName(settings.filenameTpl, {...})
FormatName ==
  /\ ~naming.made
  /\ naming' = [naming EXCEPT !.made = TRUE, !.out = formatName(naming.tpl, naming.p)]
  /\ UNCHANGED <<jobs, jobsRef, jobsDirty, running, runningR, settings, loops,
                 heatBusy, heatBusyR, heats, nextId, clicks, revoked, zip>>

FormatNext == FormatName

FormatSpec == FormatInit /\ [][FormatNext]_vars

\* ---------------------------------------------------------------- requeued runs
\* Runs that start from the page as it stands after one file was dropped
\* and dispatched, its Job canceled and then requeued by recompressAll while
\* the loop still awaits detectAlphaFast for it (line 187): the Job is
\* queued again with its fields reset, and the start request of the render
\* returned at line 171. The user has room for MaxClicks further actions.
RequeuedInit ==
  \E f \in {x \in Files : x.ok} :
    /\ jobs = <<NewJob(1, f, InitialSettings)>>
    /\ jobsRef = <<NewJob(1, f, InitialSettings)>>
    /\ jobsDirty = FALSE
    /\ running = TRUE
    /\ runningR = TRUE
    /\ settings = InitialSettings
    /\ loops = [l \in 1..MaxLoops |->
                  IF l = 1
                  THEN [pc |-> "detect", settings |-> InitialSettings,
                        job |-> [id |-> 1, file |-> [alpha |-> f.alpha]],
                        tasks |-> <<>>, dfmts |-> Enabled(InitialSettings)]
                  ELSE IdleLoop]
    /\ heatBusy = NoKey
    /\ heatBusyR = NoKey
    /\ heats = {}
    /\ nextId = 2
    /\ clicks = 0
    /\ revoked = {}
    /\ naming = NoNaming
    /\ zip = NoZip

RequeuedSpec == RequeuedInit /\ [][Next]_vars

\* ---------------------------------------------------------------- export runs
\* Runs from the empty page in which the user drops files, cancels, removes,
\* recompresses and exports; the settings stay as they are and no heatmap
\* is requested.
ZipNext ==
  \/ \E fs \in Batches : EnqueueFiles(fs)
  \/ \E id \in JobIds : CancelJob(id)
  \/ \E id \in JobIds : RemoveJob(id)
  \/ RecompressAll
  \/ \E only \in Filters : DownloadZip(only)
  \/ Render
  \/ \E l \in Slots : TimerFires(l)
  \/ \E l \in Slots : DetectDone(l)
  \/ \E l \in Slots : \E sz \in SizeChoices : CompressDone(l, sz)
  \/ \E l \in Slots : \E err \in Thrown : CompressFail(l, err)
  \/ \E l \in Slots : AfterCatch(l)

ZipSpec == Init /\ [][ZipNext]_vars

\* ---------------------------------------------------------------- claims
StateJobs == Range(jobs) \cup Range(jobsRef)

\* C1: in every reachable state the number of Jobs whose status is
\* processing, in the jobs state and in the rendered snapshot, is at most
\* the concurrency limit of Settings; with limit 1 no two Jobs are
\* processing together.
C1_ConcurrencyLimit ==
  /\ processingCount(jobs) <= settings.concurrency
  /\ processingCount(jobsRef) <= settings.concurrency

\* C1 witness: limit 1, one Job rendered processing while another is queued
C1_Witness ==
  /\ settings.concurrency = 1
  /\ \E i, k \in DOMAIN jobsRef :
       /\ jobsRef[i].status = "processing" /\ jobsRef[k].status = "queued"
       /\ \E n \in DOMAIN jobs : jobs[n].id = jobsRef[k].id /\ jobs[n].status = "queued"

\* C2: for every Job, in the jobs state and in the rendered snapshot,
\* results is non-empty only if status is done (so results is empty
\* whenever the Job is queued).
C2_ResultsOnlyWhenDone ==
  \A j \in StateJobs : j.results /= <<>> => j.status = "done"

\* C2 witness: after user actions, one Job is done with results, one of
\* them with a heatmap attached, while another Job with no result is queued
\* or canceled
C2_Witness ==
  \E i, k \in DOMAIN jobs :
    /\ jobs[i].status = "done"
    /\ \E n \in DOMAIN jobs[i].results : jobs[i].results[n].heatmapUrl /= NoUrl
    /\ jobs[k].status \in {"queued", "canceled"}
    /\ jobs[k].results = <<>>

\* C3: for a Job with detected alpha, a pipeline that resolves stores no
\* JPEG result; it stores exactly one WebP result with keepAlpha = true when
\* outWebP was enabled in Settings at the dispatch and no result when it
\* was disabled.
C3_AlphaPolicy ==
  [][\A l \in Slots :
       (/\ loops[l].pc = "compress" /\ loops'[l].pc = "yield"
        /\ loops[l].job.file.alpha
        /\ loops[l].job.id \in Ids(jobs'))
       => LET r == JobOf(jobs', loops[l].job.id).results IN
            /\ \A k \in DOMAIN r : r[k].mime = WEBP /\ r[k].keepAlpha
            /\ Len(r) = IF WEBP \in loops[l].dfmts THEN 1 ELSE 0]_vars

\* C4: for every Job without alpha that is done, the set of formats of its
\* results equals the set of formats enabled in Settings when the Job was
\* last put into queued.
C4_FormatsAsQueued ==
  \A i \in DOMAIN jobs :
    (jobs[i].status = "done" /\ jobs[i].hasAlpha = "false")
    => {jobs[i].results[k].mime : k \in DOMAIN jobs[i].results} = jobs[i].qfmts

\* C5: at most one invocation of processQueue is past its guard at any time.
C5_SingleLoop == Cardinality(Active(loops)) <= 1

\* C5 witness: the start effect ran in a render with running = true and a
\* queued Job while a loop was active: the start request returned
C5_Witness ==
  /\ Active(loops) /= {}
  /\ runningR /\ running
  /\ Flushed
  /\ HasQueued(jobsRef)

Has(J, id, s) == \E i \in DOMAIN J : J[i].id = id /\ J[i].status = s

\* C8: canceling a processing Job leaves every pipeline as it is; when the
\* pipeline of a canceled Job resolves, the Job becomes done with one result
\* per codec call, and when it fails the Job becomes error.
C8_CancelNotAbort ==
  [][/\ (\E i \in DOMAIN jobs :
            /\ jobs[i].status = "processing"
            /\ Has(jobs', jobs[i].id, "canceled"))
        => loops' = loops
     /\ \A l \in Slots :
          (loops[l].pc = "compress" /\ Has(jobs, loops[l].job.id, "canceled"))
          => /\ loops'[l].pc = "yield"
                => /\ Has(jobs', loops[l].job.id, "done")
                   /\ Len(JobOf(jobs', loops[l].job.id).results) = Len(loops[l].tasks)
             /\ loops'[l].pc = "caught" => Has(jobs', loops[l].job.id, "error")]_vars

\* C8 witness: a Job is canceled while the loop awaits its codec calls
C8_Witness ==
  \E l \in Slots :
    /\ loops[l].pc = "compress"
    /\ loops[l].tasks /= <<>>
    /\ Has(jobs, loops[l].job.id, "canceled")
    /\ Has(jobsRef, loops[l].job.id, "canceled")

\* the concurrency limit, of Settings and as captured by every running
\* loop, is larger than the number of stalled Jobs
LimitAboveStalled ==
  /\ settings.concurrency > Cardinality(StalledIds)
  /\ \A l \in Active(loops) : loops[l].settings.concurrency > Cardinality(StalledIds)

\* C9: with a concurrency limit larger than the number of stalled Jobs,
\* every other Job that is queued eventually is not queued any more.
C9_StallIsolated ==
  \A id \in JobIds \ StalledIds :
    (LimitAboveStalled /\ \E i \in DOMAIN jobs : jobs[i].id = id /\ jobs[i].status = "queued")
    ~> ~(\E i \in DOMAIN jobs : jobs[i].id = id /\ jobs[i].status = "queued")

\* C10: a Job without alpha dispatched while Settings enables no format
\* leaves its pipeline by resolving, not by failing, and is then done with
\* no result.
C10_NoFormatDone ==
  [][\A l \in Slots :
       (/\ loops[l].pc = "compress" /\ loops'[l].pc /= "compress"
        /\ ~loops[l].job.file.alpha
        /\ loops[l].dfmts = {})
       => /\ loops'[l].pc = "yield"
          /\ loops[l].job.id \in Ids(jobs')
               => /\ Has(jobs', loops[l].job.id, "done")
                  /\ JobOf(jobs', loops[l].job.id).results = <<>>]_vars

\* C11: in every reachable state the results of every Job, in the jobs
\* state and in the rendered snapshot, are in non-decreasing order of size.
C11_ResultsSorted ==
  \A j \in StateJobs :
    \A k \in 1..(Len(j.results) - 1) : j.results[k].size <= j.results[k + 1].size

\* C11 witness: a Job holds two results in an order that is not the order
\* of its codec calls (JPEG first), and a heatmap was attached to one of them
C11_Witness ==
  \E i \in DOMAIN jobs :
    /\ Len(jobs[i].results) = 2
    /\ jobs[i].results[1].mime = WEBP
    /\ jobs[i].results[1].size < jobs[i].results[2].size
    /\ \E k \in DOMAIN jobs[i].results : jobs[i].results[k].heatmapUrl /= NoUrl

\* the result r carries the heatmap of its own comparison
Memo(r) == r.heatmapUrl = HeatUrl(r.url)

\* C12: once a heatmap computation has completed for a result, every copy
\* of that result a request can read carries its handle; the handle stays
\* the same for as long as the result is on screen; and a request that
\* finds it starts no computation and marks nothing busy.
C12_HeatmapMemoized ==
  /\ [][\A h \in heats :
          HeatDone(h)
          => \A j \in Range(jobs') \cup Range(jobsRef') :
               \A k \in DOMAIN j.results :
                 j.results[k].url = h.url => Memo(j.results[k])]_vars
  /\ [][\A i \in DOMAIN jobsRef : \A k \in DOMAIN jobsRef[i].results :
          Memo(jobsRef[i].results[k])
          => \A n \in DOMAIN jobsRef' : \A m \in DOMAIN jobsRef'[n].results :
               jobsRef'[n].results[m].url = jobsRef[i].results[k].url
               => Memo(jobsRef'[n].results[m])]_vars
  /\ [][\A id \in JobIds, idx \in ResultIdx :
          (/\ Request(id, idx)
           /\ \E i \in DOMAIN jobsRef :
                /\ jobsRef[i].id = id /\ idx \in DOMAIN jobsRef[i].results
                /\ Memo(jobsRef[i].results[idx]))
          => heats' = heats /\ heatBusy' = heatBusy /\ jobs' = jobs]_vars

\* C13: while a heatmap computation for a (Job, result) pair is in
\* progress, the busy indicator, as set and as rendered, marks that pair;
\* and no two computations for the same pair are in progress together.
C13_BusyWhileComputing ==
  /\ \A h \in heats : heatBusy = <<h.id, h.idx>> /\ heatBusyR = <<h.id, h.idx>>
  /\ \A g, h \in heats : (g.id = h.id /\ g.idx = h.idx) => g = h

\* C14: a completing heatmap computation writes heatmapUrl only where it
\* is absent: on the result object it was given (line 338) and on the
\* result at its index in the jobs state (line 339).
C14_HeatmapWrittenOnce ==
  [][\A h \in heats :
       HeatDone(h)
       => /\ \A j \in Range(jobs) \cup Range(jobsRef) :
               \A k \in DOMAIN j.results :
                 j.results[k].url = h.url => ~Cached(j.results[k])
          /\ \A i \in DOMAIN jobs :
               (jobs[i].id = h.id /\ h.idx \in DOMAIN jobs[i].results)
               => ~Cached(jobs[i].results[h.idx])]_vars

\* C15: the Jobs rendered by a recompressAll are the Jobs the state held
\* before it, in the same order, where every Job that was not processing is
\* queued with no results and no start and end time, its other fields as
\* they were, and every Job that was processing is as it was.
C15_RecompressFrame ==
  [][RecompressAll
     => /\ DOMAIN jobsRef' = DOMAIN jobs
        /\ \A i \in DOMAIN jobs :
             IF jobs[i].status /= "processing"
             THEN /\ jobsRef'[i].status = "queued"
                  /\ jobsRef'[i].results = <<>>
                  /\ jobsRef'[i].startedAt = Undefined
                  /\ jobsRef'[i].endedAt = Undefined
                  /\ \A f \in {"id", "file", "url", "hasAlpha", "error"} :
                       jobsRef'[i][f] = jobs[i][f]
             ELSE jobsRef'[i] = jobs[i]]_vars

\* C15 witness: after a recompressAll one Job that had been through the
\* pipeline is rendered queued again, with no results and no times, next to
\* a Job that is still processing with its start time
C15_Witness ==
  \E i, k \in DOMAIN jobsRef :
    /\ jobsRef[i].status = "queued"
    /\ jobsRef[i].hasAlpha /= Undefined
    /\ jobsRef[i].results = <<>>
    /\ jobsRef[i].startedAt = Undefined /\ jobsRef[i].endedAt = Undefined
    /\ jobsRef[k].status = "processing"
    /\ jobsRef[k].startedAt = Stamp

\* C16: whenever a Job leaves the collection, the URL of its original and
\* the URLs of all its results have been handed to URL.revokeObjectURL.
C16_HandlesReleased ==
  [][\A i \in DOMAIN jobs :
       jobs[i].id \notin Ids(jobs') => UrlsOf(jobs[i]) \subseteq revoked']_vars

\* what a known token stands for
ValueOf(tok, p) ==
  CASE tok = "{name}" -> p.name
    [] tok = "{fmt}" -> <<p.fmt>>
    [] tok = "{q}" -> <<Percent(p.q)>>
    [] tok = "{w}" -> <<ToString(p.w)>>
    [] tok = "{ext}" -> <<p.ext>>

\* the template with every known token replaced by what it stands for and
\* every other piece left as it is
RECURSIVE Substitute(_, _)
Substitute(tpl, p) ==
  IF tpl = <<>> THEN <<>>
  ELSE (IF Head(tpl) \in KnownTokens THEN ValueOf(Head(tpl), p) ELSE <<Head(tpl)>>)
       \o Substitute(Tail(tpl), p)

\* C17: the answer of formatName is its template with every occurrence of
\* {name}, {fmt}, {q}, {w}, {ext} replaced by the base name, the format, the
\* quality as an integer percentage, the long-edge limit and the extension,
\* and with every other piece verbatim.
C17_FormatName ==
  naming.made => naming.out = Substitute(naming.tpl, naming.p)


\* the concurrency limit is 2, in Settings and as captured by every running
\* loop, and the rendered snapshot holds two queued Jobs
TwoQueuedUnderLimitTwo ==
  /\ settings.concurrency = 2
  /\ \A l \in Active(loops) : loops[l].settings.concurrency = 2
  /\ Cardinality({i \in DOMAIN jobsRef : jobsRef[i].status = "queued"}) >= 2

\* C18: when the concurrency limit is 2 and two Jobs are queued, the loop
\* dispatches up to the limit: two Jobs come to be processing at the same
\* time, the second dispatched before the pipeline of the first has finished.
C18_DispatchUpToLimit ==
  TwoQueuedUnderLimitTwo ~> (processingCount(jobs) >= 2)


\* C19: a Job enters canceled only from queued or processing; cancelJob
\* leaves a Job whose status is done, error or canceled as it is; and a Job
\* becomes canceled by no other operation than cancelJob.
C19_CanceledOnlyFromPending ==
  [][\A id \in JobIds :
       /\ (Has(jobs', id, "canceled") /\ ~Has(jobs, id, "canceled"))
          => /\ Has(jobs, id, "queued") \/ Has(jobs, id, "processing")
             /\ CancelJob(id)
       /\ (CancelJob(id) /\ \E s \in {"done", "error", "canceled"} : Has(jobs, id, s))
          => JobOf(jobs', id) = JobOf(jobs, id)]_vars


\* the Job of id is canceled and was queued when it was canceled: no
\* dispatch has stamped it since it was last put into queued
CanceledWhileQueued(J, id) ==
  \E i \in DOMAIN J :
    J[i].id = id /\ J[i].status = "canceled" /\ J[i].startedAt = Undefined

\* C20: a Job canceled while it is queued becomes canceled, is not
\* dispatched and keeps the status canceled until recompressAll requeues it
\* or it leaves the collection.
C20_CanceledStaysOut ==
  [][\A id \in JobIds :
       /\ (Has(jobs, id, "queued") /\ CancelJob(id))
          => CanceledWhileQueued(jobs', id)
       /\ CanceledWhileQueued(jobs, id)
          => \/ CanceledWhileQueued(jobs', id)
             \/ id \notin Ids(jobs')
             \/ RecompressAll]_vars


\* C21: whenever a Job is marked processing, no Job before it in the
\* collection is queued at that moment; and an invocation of processQueue
\* leaves its loop only when no Job is queued.
C21_FifoDispatch ==
  [][/\ \A i \in DOMAIN jobs' :
          (jobs'[i].status = "processing" /\ ~Has(jobs, jobs'[i].id, "processing"))
          => \A k \in DOMAIN jobs' : k < i => jobs'[k].status /= "queued"
     /\ \A l \in Slots :
          (loops[l].pc /= "idle" /\ loops'[l].pc = "idle")
          => ~HasQueued(jobs') /\ ~HasQueued(jobsRef')]_vars

\* C21 witness: the second Job of the collection is being processed after
\* the first, which arrived before it, was processed to done
C21_Witness ==
  /\ Len(jobs) = 2
  /\ jobs[1].status = "done"
  /\ jobs[2].status = "processing"
  /\ \E l \in Slots : loops[l].pc = "compress" /\ loops[l].job.id = jobs[2].id


\* the object URLs of the results of the Job of id in J
ResultUrls(J, id) ==
  UNION {{J[i].results[k].url : k \in DOMAIN J[i].results} :
           i \in {n \in DOMAIN J : J[n].id = id}}

\* C22: the object URL of a result is revoked when the result is discarded:
\* when the results of a Job that stays in the collection are cleared or
\* replaced (recompressAll, a dispatch), and when a pipeline completes for a
\* Job that is no longer in the collection.
C22_ResultHandlesReleased ==
  [][/\ \A id \in Ids(jobs) \cap Ids(jobs') :
          \A u \in ResultUrls(jobs, id) \ ResultUrls(jobs', id) : u \in revoked'
     /\ \A l \in Slots :
          (/\ loops[l].pc = "compress" /\ loops'[l].pc = "yield"
           /\ loops[l].job.id \notin Ids(jobs'))
          => \A i \in DOMAIN loops[l].tasks :
               ObjectUrl(loops[l].job.id, loops[l].tasks[i].mime, clicks) \in revoked']_vars


\* C23: an export adds entries only for results of Jobs that are done when
\* it is made, in the jobs state and in the render it reads, and among those
\* only for results whose format matches the filter; no entry comes from a
\* Job that is queued, processing, error or canceled.
C23_ExportOnlyDone ==
  [][\A only \in Filters :
       DownloadZip(only)
       => \A n \in DOMAIN zip'.entries :
            LET e == zip'.entries[n] IN
              /\ Has(jobs, e.id, "done") /\ Has(jobsRef, e.id, "done")
              /\ e.blob \in ResultUrls(jobs, e.id)
              /\ only = "all" \/ e.mime = only]_vars

\* C23 witness: an archive filtered on WebP was built while a done Job held
\* a JPEG and a WebP result and another Job, not done, was in the
\* collection: it holds the one WebP entry
C23_Witness ==
  /\ zip.made /\ zip.only = WEBP
  /\ Len(zip.entries) = 1
  /\ \E i, k \in DOMAIN jobsRef :
       /\ jobsRef[i].status = "done" /\ Len(jobsRef[i].results) = 2
       /\ jobsRef[i].id = zip.entries[1].id
       /\ jobsRef[k].status \in {"queued", "processing", "error", "canceled"}


\* C24: a Job that is queued (dropped, or requeued by recompressAll) is not
\* reported done before it was dispatched again: no step takes a Job from
\* queued to done, so the results of a done Job come from a pipeline that
\* started after the Job was last put into queued.
C24_DoneAfterDispatch ==
  [][\A id \in JobIds : Has(jobs, id, "queued") => ~Has(jobs', id, "done")]_vars


\* C25: every heatmapUrl stored on a result, in the jobs state and in the
\* rendered snapshot, is the heatmap computed from that result's own image.
C25_HeatmapOfOwnResult ==
  \A j \in StateJobs :
    \A k \in DOMAIN j.results :
      j.results[k].heatmapUrl /= NoUrl
      => j.results[k].heatmapUrl = HeatUrl(j.results[k].url)


\* C26: a Job that left the collection (removeJob, clearAll) never comes
\* back, and a detection, completion, failure or heatmap completion that
\* arrives for its id leaves the collection as it is.
C26_RemovedStaysOut ==
  [][/\ \A id \in 1..(nextId - 1) : id \notin Ids(jobs) => id \notin Ids(jobs')
     /\ \A l \in Slots :
          (/\ loops[l].pc \in {"detect", "compress"}
           /\ loops'[l].pc /= loops[l].pc
           /\ loops[l].job.id \notin Ids(jobs))
          => jobs' = jobs
     /\ \A h \in heats :
          (HeatDone(h) /\ h.id \notin Ids(jobs))
          => jobs' = jobs /\ jobsRef' = jobsRef]_vars

\* C26 witness: the codec calls of a Job resolved after the Job had left the
\* collection, while another Job is in it
C26_Witness ==
  \E l \in Slots :
    /\ loops[l].pc = "yield"
    /\ loops[l].job.id \notin Ids(jobs)
    /\ jobs /= <<>>

====
